---------------------------- MODULE Spec2Model ----------------------------
(***************************************************************************)
(* Verification model of tofo: the fixed-window transit scheduler          *)
(* (tofo/scheduler/transit_scheduler.py), the event window model of a      *)
(* target (tofo/targets.py, tofo/observatory.py), the cached transit       *)
(* search (tofo/exoclock_targets.py), the catalogue cache (tofo/sources),   *)
(* the VSX query caches (tofo/sources/aavso.py) and the image cache        *)
(* (tofo/sources/image_cache.py).                                          *)
(*                                                                         *)
(* Times and durations are integers (ticks of an arbitrary time unit).     *)
(* The specifications of the module:                                       *)
(*   SpecScheduler     one TransitScheduler construction per behaviour     *)
(*   SpecTarget        one Target object and the assignments made to it    *)
(*   SpecEventSetters  the same Target under the assignments to its event  *)
(*                     parameters and bracket only                         *)
(*   SpecDuplicates    a construction from tuples with repeated node keys  *)
(*   SpecNodes         a construction from one Target object               *)
(*   SpecEnumerate     the enumeration of the sequences, one statement at  *)
(*                     a time, with the identities of the lists            *)
(*   SpecEnumerateFair the same, an enumeration that has begun running on  *)
(*   SpecArchive       the calls of ExoClockTargets.get_all_transits       *)
(*   SpecSources       the Source objects sharing one cache file           *)
(*   SpecImages        the calls of ImageCache.preload_images and the      *)
(*                     fetches they submit to the thread pool              *)
(*   SpecVSX           the queries made to one VSX object                  *)
(* Each leaves the other components' variables at their idle value.        *)
(***************************************************************************)
EXTENDS Integers, Sequences, FiniteSets, TLC

VARIABLES
    \* ---- TransitScheduler ----
    ts,                  \* the tuples of the supplied targets (line 63-64)
    transitioner,        \* the transitioner given to the constructor
    target_data,         \* self.target_data
    target_name,         \* self.target_name
    target_block,        \* self.target_block
    possible_sequences,  \* self.possible_sequences
    pc,                  \* "new" before __init__ ran, "done" after
    start_obs_time,      \* self.start_obs_time
    end_obs_time,        \* self.end_obs_time
    \* ---- Target ----
    tgt,                 \* the fields of one Target object
    observatory,         \* the Observatory the target was built with
    op,                  \* the helper the last assignment to the target ended with
    \* ---- the other components ----
    archive,             \* an ExoClockTargets object: its targets and its cache
    run,                 \* one enumeration of the sequences, statement by statement
    store,               \* the sources cache file and the Source objects using it
    images,              \* the image cache directory and the fetches under way
    vsx                  \* one VSX object: its query caches and the requests made
schedVars == <<ts, transitioner, target_data, target_name, target_block,
               possible_sequences, pc, start_obs_time, end_obs_time>>
targetVars == <<tgt, observatory, op>>
auxVars == <<archive, run, store, images, vsx>>
vars == <<schedVars, targetVars, auxVars>>

\* An optional value is a sequence: None, or <<v>> for a present v.
None == <<>>
Some(v) == <<v>>
Val(o) == o[1]

---------------------------------------------------------------------------
(* Bounds of the scheduler inputs *)

\* latest tick a node may end at
MaxTime == 3
\* largest slew time per unit of sky separation
MaxSlew == 1

\* Node keys follow the "name|n" convention; a key is its string of characters.
KeyOrder == << <<"A", "|", "0">>, <<"A", "|", "1">>, <<"B">>, <<"C">> >>
Keys == {KeyOrder[i] : i \in 1..Len(KeyOrder)}
\* Sky position of each target along one axis, for the slew computation.
SkyPos == [A |-> 0, B |-> 1, C |-> 2]

Windows == {w \in (0..MaxTime) \X (0..MaxTime) : w[1] < w[2]}

---------------------------------------------------------------------------
(* Helpers on sequences *)

RECURSIVE IndexOf(_, _, _)
\* position of the first x in s at or after i, 0 when absent
IndexOf(s, x, i) ==
    IF i > Len(s) THEN 0
    ELSE IF s[i] = x THEN i ELSE IndexOf(s, x, i + 1)

Contains(s, x) == IndexOf(s, x, 1) # 0

\* e.split("|")[0] when '|' in e, else e    (lines 97-100 and 102-105)
ename(e) ==
    IF Contains(e, "|") THEN SubSeq(e, 1, IndexOf(e, "|", 1) - 1) ELSE e

RECURSIVE InsertStable(_, _)
\* x placed after every element whose start is <= x's start
InsertStable(s, x) ==
    IF s = <<>> THEN <<x>>
    ELSE IF Head(s).start <= x.start
         THEN <<Head(s)>> \o InsertStable(Tail(s), x)
         ELSE <<x>> \o s

RECURSIVE sorted(_)
\* sorted(ts, key=lambda x: x[2]): stable, ascending start
sorted(s) ==
    IF s = <<>> THEN <<>>
    ELSE InsertStable(sorted(SubSeq(s, 1, Len(s) - 1)), s[Len(s)])

RECURSIVE DictKeys(_)
\* keys of a dict comprehension over s, in first-insertion order
DictKeys(s) ==
    IF s = <<>> THEN <<>>
    ELSE LET init == DictKeys(SubSeq(s, 1, Len(s) - 1))
             k == s[Len(s)].key
         IN IF Contains(init, k) THEN init ELSE Append(init, k)

RECURSIVE LastWith(_, _)
\* the last element of s whose key is k (a later dict entry overwrites)
LastWith(s, k) ==
    IF s[Len(s)].key = k THEN s[Len(s)] ELSE LastWith(SubSeq(s, 1, Len(s) - 1), k)

---------------------------------------------------------------------------
(* _make_target_data_names_block *)

make_target_data(tuples) ==
    LET sl == sorted(tuples)
    IN [k \in {sl[i].key : i \in 1..Len(sl)} |->
            LET e == LastWith(sl, k)
            IN [priority |-> e.priority, start |-> e.start,
                end |-> e.end, target |-> e.target]]

make_target_name(tuples) == DictKeys(sorted(tuples))

make_target_block(tuples) ==
    [k \in {tuples[i].key : i \in 1..Len(tuples)} |->
        LET t == LastWith(tuples, k)
        IN [target |-> t.target, duration |-> t.end - t.start,
            priority |-> t.priority]]

---------------------------------------------------------------------------
(* The transitioner handed to the constructor and called at line 109:     *)
(*   None      no transitioner (the default of line 36), not callable      *)
(*   Some(r)   astroplan's Transitioner, r ticks of slew per unit of       *)
(*             separation on the sky                                        *)
(*   Fixed(d)  another callable, whose transition block lasts d every time *)

Abs(x) == IF x < 0 THEN -x ELSE x

Fixed(d) == <<"fixed", d>>

\* a variant in which a missing transitioner is taken as no overhead
raises_never(tr) == FALSE

\* line 109: self.transitioner(...) with transitioner None raises TypeError
raises(tr) == tr = None

\* the value a call returns: None when no slew is needed, else the duration
\* of the transition block
transition_call(tr, oldblock, newblock) ==
    IF tr = None THEN None
    ELSE IF Len(tr) = 2 THEN Some(tr[2])
    ELSE IF oldblock.target = newblock.target THEN None
    ELSE LET slew_time == Abs(SkyPos[oldblock.target] - SkyPos[newblock.target]) * Val(tr)
         IN IF slew_time > 0 THEN Some(slew_time) ELSE None

\* lines 109-113: the overhead used in the comparison
transition_dur(tr, blocks, e, e2) ==
    LET transition == transition_call(tr, blocks[e], blocks[e2])
    IN IF transition # None THEN Val(transition) ELSE 0

\* a variant of the comparison that forgets the transition
fits_no_overhead(tr, data, blocks, e, e2) ==
    data[e].end <= data[e2].start

\* line 114
fits(tr, data, blocks, e, e2) ==
    data[e].end + transition_dur(tr, blocks, e, e2) <= data[e2].start

\* line 106 (negated): the pair is examined at all
other_target(e, e2) == ename(e) # ename(e2)

\* a variant that starts a chain without its head
extend_ws_no_head(ws, e, e2) == IF ws # <<>> THEN Append(ws, e2) ELSE <<e2>>

\* a variant that forgets the chain built so far
extend_ws_restart(ws, e, e2) == <<e, e2>>

\* lines 116-119
extend_ws(ws, e, e2) == IF ws # <<>> THEN Append(ws, e2) ELSE <<e, e2>>

\* a variant that drops the node next to e2 from the recursive search
remainder_skip(local_l, ie2) == SubSeq(local_l, ie2 + 2, Len(local_l))

\* a variant that hands e2 itself on with the nodes after it
remainder_from(local_l, ie2) == SubSeq(local_l, ie2, Len(local_l))

\* line 121: the names handed to the recursive call
remainder(local_l, ie2) == SubSeq(local_l, ie2 + 1, Len(local_l))

---------------------------------------------------------------------------
(* _find_all and _find_all_sequences *)

RECURSIVE find_all(_, _, _, _, _, _), find_all_loop(_, _, _, _, _, _, _)

\* the for loop of lines 101-123, from index ie2 (1-based) on
find_all_loop(tr, data, blocks, local_l, ws, e, ie2) ==
    IF ie2 > Len(local_l) THEN <<>>
    ELSE LET e2 == local_l[ie2]
             later == find_all_loop(tr, data, blocks, local_l, ws, e, ie2 + 1)
         IN IF ~other_target(e, e2) THEN later
            ELSE IF fits(tr, data, blocks, e, e2)
                 THEN LET local_ws == extend_ws(ws, e, e2)
                      IN <<local_ws>>
                         \o find_all(tr, data, blocks, remainder(local_l, ie2), local_ws, e2)
                         \o later
                 ELSE later

\* _find_all(names, ws, e), always called with e given
find_all(tr, data, blocks, names, ws, e) ==
    IF names = <<>> THEN <<>>
    ELSE find_all_loop(tr, data, blocks, names, ws, e, 1)

\* a variant that searches from the first head only
find_all_sequences_first_head(tr, data, blocks, local_l) ==
    IF local_l = <<>> THEN <<>>
    ELSE find_all(tr, data, blocks, Tail(local_l), <<>>, Head(local_l))

RECURSIVE find_all_sequences_from(_, _, _, _)
\* the while loop of lines 78-82 on the remaining local_l
find_all_sequences_from(tr, data, blocks, local_l) ==
    IF local_l = <<>> THEN <<>>
    ELSE find_all(tr, data, blocks, Tail(local_l), <<>>, Head(local_l))
         \o find_all_sequences_from(tr, data, blocks, Tail(local_l))

RECURSIVE find_all_every_head(_, _, _, _, _)
find_all_every_head(tr, data, blocks, names, i) ==
    IF i > Len(names) THEN <<>>
    ELSE find_all(tr, data, blocks,
                  SubSeq(names, 1, i - 1) \o SubSeq(names, i + 1, Len(names)),
                  <<>>, names[i])
         \o find_all_every_head(tr, data, blocks, names, i + 1)

\* a variant that searches, from each head, the nodes before it as well
find_all_sequences_every_head(tr, data, blocks, names) ==
    find_all_every_head(tr, data, blocks, names, 1)

\* _find_all_sequences, lines 75-83
find_all_sequences(tr, data, blocks, names) ==
    find_all_sequences_from(tr, data, blocks, names)

\* a variant that calls the transitioner before looking at the names
calls_transitioner_always(names) == TRUE

\* lines 78-82, 101-109: the transitioner is called for the pairs of nodes of
\* different targets, the first of them being the first head with a later
\* node of another target; it is not called when there is no such pair
calls_transitioner(names) ==
    \E i, j \in 1..Len(names) : i < j /\ other_target(names[i], names[j])

---------------------------------------------------------------------------
(* Scheduler inputs and state machine *)

\* the variables of the components a specification leaves out
IdleAux ==
    /\ archive = <<>>
    /\ run = <<>>
    /\ store = <<>>
    /\ images = <<>>
    /\ vsx = <<>>

\* the Target variables while only the scheduler runs
IdleTarget ==
    /\ tgt = <<>>
    /\ observatory = <<>>
    /\ op = "idle"

Absent == <<>>

RECURSIVE BuildTuples(_, _, _)
\* the tuples of the chosen targets, listed in the caller's order
BuildTuples(choice, order, i) ==
    IF i > Len(KeyOrder) THEN <<>>
    ELSE LET k == order[i]
         IN IF choice[k] = Absent THEN BuildTuples(choice, order, i + 1)
            ELSE << [key |-> KeyOrder[k], priority |-> 1,
                     start |-> choice[k][1], end |-> choice[k][2],
                     target |-> ename(KeyOrder[k])[1]] >>
                 \o BuildTuples(choice, order, i + 1)

\* the orders in which the caller may list the targets
Orders == { [i \in 1..Len(KeyOrder) |-> i],
            [i \in 1..Len(KeyOrder) |-> Len(KeyOrder) + 1 - i],
            [i \in 1..Len(KeyOrder) |-> (i % Len(KeyOrder)) + 1] }

Transitioners == {None} \cup {Some(r) : r \in 0..MaxSlew} \cup {Fixed(-1)}

InitScheduler ==
    /\ \E choice \in [1..Len(KeyOrder) -> Windows \cup {Absent}] :
         \E order \in Orders :
           ts = BuildTuples(choice, order, 1)
    /\ transitioner \in Transitioners
    /\ target_data = <<>>
    /\ target_name = <<>>
    /\ target_block = <<>>
    /\ possible_sequences = <<>>
    /\ pc = "new"
    /\ start_obs_time = None
    /\ end_obs_time = None
    /\ IdleTarget
    /\ IdleAux

\* TransitScheduler.__init__, lines 53-58.  When the call of line 109 raises,
\* the exception leaves the constructor and possible_sequences is never
\* assigned.
Construct ==
    /\ pc = "new"
    /\ target_data' = make_target_data(ts)
    /\ target_name' = make_target_name(ts)
    /\ target_block' = make_target_block(ts)
    /\ IF raises(transitioner) /\ calls_transitioner(make_target_name(ts))
       THEN /\ possible_sequences' = <<>>
            /\ pc' = "raised"
       ELSE /\ possible_sequences' =
                   find_all_sequences(transitioner, make_target_data(ts),
                                      make_target_block(ts), make_target_name(ts))
            /\ pc' = "done"
    /\ UNCHANGED <<ts, transitioner, start_obs_time, end_obs_time>>
    /\ UNCHANGED targetVars
    /\ UNCHANGED auxVars

NextScheduler == Construct

SpecScheduler == InitScheduler /\ [][NextScheduler]_vars

\* longest list of tuples in which node keys may repeat
MaxTuples == 3

\* Target.to_tuple builds the key from the target's name, and nothing keeps
\* two targets of the list from carrying the same name: the tuples of such a
\* list, any key with any window
TupleValues ==
    {[key |-> k, priority |-> 1, start |-> w[1], end |-> w[2],
      target |-> ename(k)[1]] : k \in {<<"A", "|", "0">>, <<"B">>}, w \in Windows}

InitDuplicates ==
    /\ \E n \in 0..MaxTuples : ts \in [1..n -> TupleValues]
    /\ transitioner = Some(0)
    /\ target_data = <<>>
    /\ target_name = <<>>
    /\ target_block = <<>>
    /\ possible_sequences = <<>>
    /\ pc = "new"
    /\ start_obs_time = None
    /\ end_obs_time = None
    /\ IdleTarget
    /\ IdleAux

SpecDuplicates == InitDuplicates /\ [][NextScheduler]_vars

---------------------------------------------------------------------------
(* The enumeration statement by statement, its lists as objects            *)
(*                                                                         *)
(* run.heap holds the list objects the enumeration creates for its chains: *)
(* the identity of a list is its index in the heap.  A frame of run.stack  *)
(* is one call of _find_all: its local_l, ws (a list object), e, the       *)
(* position ie2 of its for loop and its res, a list of list objects.       *)

\* a variant in which local_ws is the very list object ws
copy_alias(heap, ws) == ws

\* line 108: copy.copy(ws) is a new list object, allocated after the others
copy_copy(heap, ws) == Len(heap) + 1

top(stack) == stack[Len(stack)]

pop(stack) == SubSeq(stack, 1, Len(stack) - 1)

InitEnumerate ==
    /\ InitScheduler
    /\ transitioner \in {None, Some(0)}
    /\ \A i, j \in 1..Len(ts) :
           i < j => IndexOf(KeyOrder, ts[i].key, 1) < IndexOf(KeyOrder, ts[j].key, 1)

\* lines 53-57 and 76-77: the dictionaries are built and the search begins
StartEnumeration ==
    /\ pc = "new"
    /\ target_data' = make_target_data(ts)
    /\ target_name' = make_target_name(ts)
    /\ target_block' = make_target_block(ts)
    /\ run' = [heap |-> <<>>, local_l |-> make_target_name(ts), res |-> <<>>,
               stack |-> <<>>]
    /\ pc' = "running"
    /\ UNCHANGED <<ts, transitioner, start_obs_time, end_obs_time,
                   possible_sequences, archive, store, images, vsx>>
    /\ UNCHANGED targetVars

\* lines 78-80: the next head is popped and _find_all is called with a new
\* empty list as ws
PopHead ==
    /\ pc = "running"
    /\ run.stack = <<>>
    /\ run.local_l # <<>>
    /\ run' = [run EXCEPT
                  !.heap = Append(@, <<>>),
                  !.local_l = Tail(@),
                  !.stack = << [local_l |-> Tail(run.local_l),
                                ws |-> Len(run.heap) + 1,
                                e |-> Head(run.local_l),
                                ie2 |-> 1, res |-> <<>>] >>]
    /\ UNCHANGED <<schedVars, targetVars, archive, store, images, vsx>>

\* lines 101-107: the node e2 belongs to the target of e and is passed over
SkipSameTarget ==
    /\ pc = "running"
    /\ run.stack # <<>>
    /\ LET f == top(run.stack)
       IN /\ f.ie2 <= Len(f.local_l)
          /\ ~other_target(f.e, f.local_l[f.ie2])
          /\ run' = [run EXCEPT !.stack[Len(run.stack)].ie2 = @ + 1]
    /\ UNCHANGED <<schedVars, targetVars, archive, store, images, vsx>>

\* lines 108-109 with a transitioner that cannot be called: the exception
\* leaves the constructor
CallRaises ==
    /\ pc = "running"
    /\ run.stack # <<>>
    /\ LET f == top(run.stack)
       IN /\ f.ie2 <= Len(f.local_l)
          /\ other_target(f.e, f.local_l[f.ie2])
          /\ raises(transitioner)
          /\ run' = [run EXCEPT !.heap = Append(@, run.heap[f.ws])]
    /\ pc' = "raised"
    /\ UNCHANGED <<ts, transitioner, start_obs_time, end_obs_time,
                   target_data, target_name, target_block,
                   possible_sequences, archive, store, images, vsx>>
    /\ UNCHANGED targetVars

\* lines 108-114: e2 does not start after e is done
Reject ==
    /\ pc = "running"
    /\ run.stack # <<>>
    /\ LET f == top(run.stack)
       IN /\ f.ie2 <= Len(f.local_l)
          /\ other_target(f.e, f.local_l[f.ie2])
          /\ ~raises(transitioner)
          /\ ~fits(transitioner, target_data, target_block, f.e, f.local_l[f.ie2])
          /\ run' = [run EXCEPT !.heap = Append(@, run.heap[f.ws]),
                                !.stack[Len(run.stack)].ie2 = @ + 1]
    /\ UNCHANGED <<schedVars, targetVars, archive, store, images, vsx>>

\* lines 108-121: the chain is extended by e2, appended to res, and _find_all
\* is called for the nodes after e2
Extend ==
    /\ pc = "running"
    /\ run.stack # <<>>
    /\ LET f == top(run.stack)
           e2 == f.local_l[f.ie2]
           local_ws == copy_copy(run.heap, f.ws)
           copied == Append(run.heap, run.heap[f.ws])
           heap2 == IF copied[local_ws] # <<>>
                    THEN [copied EXCEPT ![local_ws] = Append(@, e2)]
                    ELSE Append(copied, <<f.e, e2>>)
           chain == IF copied[local_ws] # <<>> THEN local_ws ELSE Len(heap2)
       IN /\ f.ie2 <= Len(f.local_l)
          /\ other_target(f.e, e2)
          /\ ~raises(transitioner)
          /\ fits(transitioner, target_data, target_block, f.e, e2)
          /\ run' = [run EXCEPT
                        !.heap = heap2,
                        !.stack = Append(
                            [@ EXCEPT ![Len(@)].res = Append(@, chain)],
                            [local_l |-> remainder(f.local_l, f.ie2),
                             ws |-> chain, e |-> e2, ie2 |-> 1, res |-> <<>>])]
    /\ UNCHANGED <<schedVars, targetVars, archive, store, images, vsx>>

\* line 124, then lines 122-123 or 81-82: the call returns its res, which
\* the caller adds to its own
Return ==
    /\ pc = "running"
    /\ run.stack # <<>>
    /\ LET f == top(run.stack)
       IN /\ f.ie2 > Len(f.local_l)
          /\ IF Len(run.stack) = 1
             THEN run' = [run EXCEPT !.stack = <<>>, !.res = @ \o f.res]
             ELSE run' = [run EXCEPT
                            !.stack = [pop(@) EXCEPT
                                         ![Len(run.stack) - 1].res = @ \o f.res,
                                         ![Len(run.stack) - 1].ie2 = @ + 1]]
    /\ UNCHANGED <<schedVars, targetVars, archive, store, images, vsx>>

\* lines 83 and 58: the result is assigned to possible_sequences
Finish ==
    /\ pc = "running"
    /\ run.stack = <<>>
    /\ run.local_l = <<>>
    /\ possible_sequences' = [i \in 1..Len(run.res) |-> run.heap[run.res[i]]]
    /\ pc' = "done"
    /\ UNCHANGED <<ts, transitioner, start_obs_time, end_obs_time,
                   target_data, target_name, target_block,
                   auxVars>>
    /\ UNCHANGED targetVars

NextEnumerate ==
    \/ StartEnumeration
    \/ PopHead
    \/ SkipSameTarget
    \/ CallRaises
    \/ Reject
    \/ Extend
    \/ Return
    \/ Finish

SpecEnumerate == InitEnumerate /\ [][NextEnumerate]_vars

\* lines 78-124: the steps of _find_all_sequences once it has been called
EnumerationStep ==
    \/ PopHead
    \/ SkipSameTarget
    \/ CallRaises
    \/ Reject
    \/ Extend
    \/ Return
    \/ Finish

\* Whether the constructor is called at all is the caller's choice; once
\* _find_all_sequences has been called it runs on in the calling thread, and
\* none of its statements waits for anything.
SpecEnumerateFair == SpecEnumerate /\ WF_vars(EnumerationStep)

---------------------------------------------------------------------------
(* Properties of the scheduler *)

Emitted == {possible_sequences[i] : i \in 1..Len(possible_sequences)}

\* the overhead of the ordered pair (a, b), as the constructed scheduler sees it
overhead(a, b) == transition_dur(transitioner, target_block, a, b)

compatible(a, b) ==
    /\ ename(a) # ename(b)
    /\ target_data[a].end + overhead(a, b) <= target_data[b].start

RECURSIVE ChainAt(_, _)
\* the nodes of `names` at the positions of the set P, in list order
ChainAt(names, P) ==
    IF P = {} THEN <<>>
    ELSE LET m == CHOOSE x \in P : \A y \in P : y <= x
         IN Append(ChainAt(names, P \ {m}), names[m])

IsChain(c) == \A j \in 1..(Len(c) - 1) : compatible(c[j], c[j + 1])

\* C1: no emitted sequence contains two nodes of the same target (the name
\* before the '|' suffix), adjacent or not.
C1_NoRepeatedTarget ==
    \A c \in Emitted :
        \A i, j \in 1..Len(c) : i < j => ename(c[i]) # ename(c[j])

\* C2: every adjacent pair (A, B) of an emitted sequence belongs to different
\* targets and satisfies A.end + overhead(A, B) <= B.start; a two-node input
\* whose gap is shorter than the overhead yields no sequence.
C2_AdjacentCompatible ==
    pc = "done" =>
        /\ \A c \in Emitted : \A j \in 1..(Len(c) - 1) :
               /\ ename(c[j]) # ename(c[j + 1])
               /\ target_data[c[j]].end + overhead(c[j], c[j + 1])
                      <= target_data[c[j + 1]].start
        /\ (/\ Len(target_name) = 2
            /\ target_data[target_name[1]].end
                   + overhead(target_name[1], target_name[2])
                   > target_data[target_name[2]].start)
               => possible_sequences = <<>>

\* C2's case: a pair is emitted under a positive overhead, and a pair of other
\* targets whose positive gap is shorter than the overhead is not.
C2_Witness ==
    /\ pc = "done"
    /\ \E c \in Emitted : overhead(c[1], c[2]) > 0
    /\ \E i, j \in 1..Len(target_name) :
           LET a == target_name[i]
               b == target_name[j]
           IN /\ i < j
              /\ ename(a) # ename(b)
              /\ target_data[a].end < target_data[b].start
              /\ target_data[a].end + overhead(a, b) > target_data[b].start
              /\ \A c \in Emitted : \A n \in 1..(Len(c) - 1) :
                     ~(c[n] = a /\ c[n + 1] = b)

\* C3: every chain of k >= 2 nodes at strictly increasing positions of the
\* sorted node list whose consecutive pairs are compatible is emitted.
C3_Complete ==
    pc = "done" =>
        \A P \in SUBSET (1..Len(target_name)) :
            (Cardinality(P) >= 2 /\ IsChain(ChainAt(target_name, P)))
                => ChainAt(target_name, P) \in Emitted

\* C3's case: a chain that skips a node of the list, and a strict prefix of a
\* longer emitted chain, are both emitted.
C3_Witness ==
    /\ pc = "done"
    /\ Len(target_name) = 4
    /\ IsChain(ChainAt(target_name, {1, 3, 4}))
    /\ ChainAt(target_name, {1, 3}) \in Emitted
    /\ ChainAt(target_name, {1, 3, 4}) \in Emitted

\* C4: with an emitted chain of length >= 3 every contiguous sub-chain of
\* length >= 2 is emitted; three targets A, B, C one after the other with zero
\* overhead give [A,B], [B,C] and [A,B,C].
C4_PrefixInclusive ==
    pc = "done" =>
        /\ \A c \in Emitted : \A i, j \in 1..Len(c) :
               (Len(c) >= 3 /\ i < j) => SubSeq(c, i, j) \in Emitted
        /\ (/\ Len(target_name) = 3
            /\ compatible(target_name[1], target_name[2])
            /\ compatible(target_name[2], target_name[3]))
               => {<<target_name[1], target_name[2]>>,
                   <<target_name[2], target_name[3]>>,
                   <<target_name[1], target_name[2], target_name[3]>>}
                      \subseteq Emitted

\* C4's case: the three-target scenario, A then B then C, zero overhead.
C4_Witness ==
    /\ pc = "done"
    /\ target_name = << <<"A", "|", "0">>, <<"B">>, <<"C">> >>
    /\ transitioner = Some(0)
    /\ target_data[<<"A", "|", "0">>].end <= target_data[<<"B">>].start
    /\ target_data[<<"B">>].end <= target_data[<<"C">>].start
    /\ << <<"A", "|", "0">>, <<"B">>, <<"C">> >> \in Emitted
    /\ << <<"B">>, <<"C">> >> \in Emitted

\* C5: every emitted sequence has length >= 2, and two nodes of different
\* targets, A before B with a gap and zero overhead, give exactly [A, B].
C5_LengthAtLeastTwo ==
    pc = "done" =>
        /\ \A i \in 1..Len(possible_sequences) : Len(possible_sequences[i]) >= 2
        /\ (/\ Len(target_name) = 2
            /\ ename(target_name[1]) # ename(target_name[2])
            /\ overhead(target_name[1], target_name[2]) = 0
            /\ target_data[target_name[1]].end <= target_data[target_name[2]].start)
               => possible_sequences = << <<target_name[1], target_name[2]>> >>

\* C5's case: A ends before B starts, zero overhead.
C5_Witness ==
    /\ pc = "done"
    /\ target_name = << <<"A", "|", "0">>, <<"B">> >>
    /\ target_data[<<"A", "|", "0">>].end < target_data[<<"B">>].start
    /\ overhead(<<"A", "|", "0">>, <<"B">>) = 0
    /\ possible_sequences = << << <<"A", "|", "0">>, <<"B">> >> >>

\* the pairs of nodes the enumeration examines first: a head and a later node
\* of another target
DifferentTargetPairs ==
    {p \in (1..Len(target_name)) \X (1..Len(target_name)) :
        p[1] < p[2] /\ ename(target_name[p[1]]) # ename(target_name[p[2]])}

\* C17: when the transition function returns a negative duration for an
\* examined pair the enumeration stops with an error and produces no list; a
\* negative overhead is never used in the comparison of an emitted pair.
C17_NegativeOverheadRejected ==
    pc = "done" =>
        /\ \A p \in DifferentTargetPairs :
               overhead(target_name[p[1]], target_name[p[2]]) >= 0
        /\ \A c \in Emitted : \A j \in 1..(Len(c) - 1) :
               overhead(c[j], c[j + 1]) >= 0

\* C18: a scheduler constructed with transitioner None never returns a
\* non-empty list: the construction fails exactly when the node list holds two
\* nodes of different targets, and completes with an empty list otherwise.
C18_NoTransitionerNeverEmits ==
    (transitioner = None /\ pc \in {"done", "raised"}) =>
        /\ possible_sequences = <<>>
        /\ (pc = "raised") <=> (DifferentTargetPairs # {})
        /\ (pc = "done") <=> (DifferentTargetPairs = {})

\* C18's case: the construction failed on nodes that zero overhead would have
\* chained, A ending before B starts.
C18_Witness ==
    /\ transitioner = None
    /\ pc = "raised"
    /\ \E p \in DifferentTargetPairs :
           target_data[target_name[p[1]]].end <= target_data[target_name[p[2]]].start

\* C19: an empty node list gives an empty possible_sequences and no error,
\* whatever the transitioner is: it is not called.
C19_EmptyNodeList ==
    (pc \in {"done", "raised"} /\ ts = <<>>) =>
        /\ pc = "done"
        /\ target_name = <<>>
        /\ possible_sequences = <<>>

\* C19's case: no node and a transitioner that cannot be called.
C19_Witness ==
    /\ pc = "done"
    /\ ts = <<>>
    /\ raises(transitioner)
    /\ possible_sequences = <<>>

\* some tuple of key a with the start recorded for a comes, in the input
\* list, before some tuple of key b with the start recorded for b
InputOrder(a, b) ==
    \E m, n \in 1..Len(ts) :
        /\ m < n
        /\ ts[m].key = a /\ ts[m].start = target_data[a].start
        /\ ts[n].key = b /\ ts[n].start = target_data[b].start

\* C20: target_name lists the nodes in ascending order of the start recorded
\* for them in target_data, nodes of equal start in their input order, for
\* every input list, keys repeated or not.
C20_NamesAscending ==
    pc \in {"done", "raised"} =>
        \A i, j \in 1..Len(target_name) :
            i < j =>
                LET a == target_name[i]
                    b == target_name[j]
                IN \/ target_data[a].start < target_data[b].start
                   \/ /\ target_data[a].start = target_data[b].start
                      /\ InputOrder(a, b)

\* the list objects appended so far to the res of the running enumeration
\* or of one of its calls
Appended(r) ==
    {r.res[i] : i \in 1..Len(r.res)}
    \cup UNION {{r.stack[n].res[i] : i \in 1..Len(r.stack[n].res)} :
                   n \in 1..Len(r.stack)}

\* C22: a chain appended to the result is not changed by any later step of
\* the enumeration, and no two entries of possible_sequences are the same
\* list object.
C22_SequencesImmutable ==
    /\ [][(run # <<>> /\ run' # <<>>) =>
              \A id \in Appended(run) : run'.heap[id] = run.heap[id]]_vars
    /\ [](run # <<>> =>
              /\ \A i, j \in 1..Len(run.res) : i < j => run.res[i] # run.res[j]
              /\ pc = "done" =>
                     possible_sequences =
                         [i \in 1..Len(run.res) |-> run.heap[run.res[i]]])

\* C22's case: a chain of two nodes was appended, then extended into a chain
\* of three, and both are entries of the finished result.
C22_Witness ==
    /\ pc = "done"
    /\ run # <<>>
    /\ \E i, j \in 1..Len(run.res) :
           /\ i < j
           /\ Len(run.heap[run.res[i]]) = 2
           /\ Len(run.heap[run.res[j]]) = 3
           /\ SubSeq(run.heap[run.res[j]], 1, 2) = run.heap[run.res[i]]
    /\ possible_sequences =
           find_all_sequences(transitioner, target_data, target_block, target_name)

\* C23: possible_sequences never holds the same ordered chain of nodes twice.
C23_NoDuplicateChain ==
    pc = "done" =>
        \A i, j \in 1..Len(possible_sequences) :
            i < j => possible_sequences[i] # possible_sequences[j]

\* C23's case: chains that share their nodes, [A, B], [A, B, C], [A, C] and
\* [B, C], are each emitted once.
C23_Witness ==
    /\ pc = "done"
    /\ Len(target_name) >= 3
    /\ Len(possible_sequences) = 4
    /\ Cardinality(Emitted) = 4
    /\ \E c \in Emitted : Len(c) = 3

\* the position of a node in the sorted node list
Position(e) == IndexOf(target_name, e, 1)

\* C25: in every emitted sequence each node stands at a strictly later
\* position of the sorted node list than its predecessor, so no sequence
\* holds a node twice.
C25_PositionsIncrease ==
    pc = "done" =>
        \A c \in Emitted :
            /\ \A j \in 1..(Len(c) - 1) : Position(c[j]) < Position(c[j + 1])
            /\ \A i, j \in 1..Len(c) : i < j => c[i] # c[j]

\* C25's case: under a negative overhead a node that starts before its
\* predecessor ends is chained, and still stands later in the list.
C25_Witness ==
    /\ pc = "done"
    /\ \E c \in Emitted :
           /\ Len(c) = 3
           /\ target_data[c[1]].end > target_data[c[2]].start
           /\ Position(c[1]) < Position(c[2])
           /\ Position(c[2]) < Position(c[3])

---------------------------------------------------------------------------
(* Target: the event window model (tofo/targets.py)                        *)
(*                                                                         *)
(* Times are integers.  A value the code halves (the event duration, the   *)
(* observation duration) is drawn from the even numbers, so that the half  *)
(* is exact, as it is with the floating point durations of the code.       *)

\* half of the longest observation duration
MaxObsHalf == 3
\* longest period of an event
MaxPeriod == 3
\* largest pre/post margin of the observatory configuration
MaxMargin == 1

RaValues == {"", "r1"}
DecValues == {"d1"}
NameValues == {"A"}
EpochValues == {None, Some(0)}
PeriodValues == {None} \cup {Some(p) : p \in 2..MaxPeriod}
DurationValues == {None, Some(0), Some(2)}
ObsTimeValues == {None, Some(0), Some(1)}
\* the setters validate nothing (lines 312-320): a duration may be negative
\* and an end time may precede the start
ObsDurationValues == {None} \cup {Some(2 * h) : h \in -2..MaxObsHalf}
EndTimeValues == -1..(2 * MaxObsHalf)
\* The site constraints (twilight, horizon) of one session: the target is
\* observable at the instants before it sets.
SetsValues == {MaxObsHalf, 4 * MaxObsHalf}

\* 0.5 * u.minute, the half duration assumed for an unknown duration (line 194)
HalfMinute == 1

\* _set_position, lines 102-111
set_position(self) ==
    IF self.ra_j2000 # "" /\ self.dec_j2000 # "" /\ self.name # ""
    THEN [self EXCEPT !.c = Some(<<self.ra_j2000, self.dec_j2000>>)]
    ELSE self

\* observation_end_time (property), lines 283-288
observation_end_time(self) ==
    IF self.observation_time = None \/ self.observation_duration = None
    THEN None
    ELSE Some(Val(self.observation_time) + Val(self.observation_duration))

\* a variant that substitutes no placeholder for an unknown duration
half_duration_no_placeholder(self) ==
    IF self.duration = None THEN 0 ELSE Val(self.duration) \div 2

\* lines 193-196: d, half the duration (a NaN duration is treated by the code
\* as an unknown one and is the same None here)
half_duration(self) ==
    IF self.duration = None THEN HalfMinute ELSE Val(self.duration) \div 2

\* _transit_times, lines 189-206: the five window times tt around mid time t
transit_times(self, obs, t) ==
    LET d == half_duration(self)
    IN << t - d - obs.exo_hours_before,
          t - d,
          t,
          t + d,
          t + d + obs.exo_hours_after >>

\* a variant that looks at the bracket only
is_event_observable_no_site(self, obs, t) ==
    /\ Val(self.observation_time) < t
    /\ t < Val(observation_end_time(self))

\* astroplan's is_event_observable with [time_c, *observatory.constraints]
\* (lines 161-162, 169): strictly inside the bracket and above the horizon
is_event_observable(self, obs, t) ==
    /\ Val(self.observation_time) < t
    /\ t < Val(observation_end_time(self))
    /\ t < obs.sets

\* a variant in which partially observable excludes fully observable
flags_exclusive(vis) ==
    << \A i \in 1..Len(vis) : vis[i],
       (\E i \in 1..Len(vis) : vis[i]) /\ ~(\A i \in 1..Len(vis) : vis[i]) >>

\* lines 172-174: (all(vis), any(vis))
flags(vis) ==
    << \A i \in 1..Len(vis) : vis[i], \E i \in 1..Len(vis) : vis[i] >>

RECURSIVE SelectInBracket(_, _)
\* line 165: the mid times t with observation_time <= t <= observation_end_time
SelectInBracket(self, mid_times) ==
    IF mid_times = <<>> THEN <<>>
    ELSE LET t == Head(mid_times)
             rest == SelectInBracket(self, Tail(mid_times))
         IN IF Val(self.observation_time) <= t /\ t <= Val(observation_end_time(self))
            THEN <<t>> \o rest
            ELSE rest

\* check_observability, lines 149-175
check_observability(self, obs, mid_times) ==
    LET kept == SelectInBracket(self, mid_times)
    IN [i \in 1..Len(kept) |->
           LET times == transit_times(self, obs, kept[i])
           IN flags([n \in 1..Len(times) |-> is_event_observable(self, obs, times[n])])]

\* a variant that rounds the number of occurrences down
floor_div(a, b) == a \div b

\* np.ceil(a / b) for b > 0
CeilDiv(a, b) == -((-a) \div b)

\* a variant that starts with the last occurrence not after the time
next_primary_eclipse_time_from(epoch, period, time, n) ==
    LET first == time - ((time - epoch) % period)
    IN [k \in 1..n |-> first + (k - 1) * period]

\* astroplan's EclipsingSystem.next_primary_eclipse_time(time, n), line 134:
\* time + (1 - phase(time)) * period + k * period, k = 0 .. n - 1
next_primary_eclipse_time(epoch, period, time, n) ==
    LET first == time + period - ((time - epoch) % period)
    IN [k \in 1..n |-> first + (k - 1) * period]

\* lines 122-137: the candidate mid times
midtransit_times(self) ==
    IF self.epoch # None /\ self.period # None
    THEN LET num_obs == CeilDiv(Val(self.observation_duration), Val(self.period))
         IN next_primary_eclipse_time(Val(self.epoch), Val(self.period),
                                      Val(self.observation_time), num_obs)
    ELSE << Val(self.observation_time) + Val(self.observation_duration) \div 2 >>

RECURSIVE ZipSelect(_, _, _, _)
\* [t for t, o in zip(mids, obsv) if o[which]], lines 139-140
ZipSelect(mids, obsv, which, i) ==
    IF i > Len(mids) \/ i > Len(obsv) THEN <<>>
    ELSE IF obsv[i][which]
         THEN <<mids[i]>> \o ZipSelect(mids, obsv, which, i + 1)
         ELSE ZipSelect(mids, obsv, which, i + 1)

\* lines 115-120: all the data needed is there
has_all_data(self) ==
    /\ self.ra_j2000 # ""
    /\ self.dec_j2000 # ""
    /\ self.name # ""
    /\ self.observation_time # None
    /\ self.observation_duration # None

\* line 122: it is a transit-like thing
periodic(self) == self.epoch # None /\ self.period # None

\* a variant that adds the new occurrences to the lists it already holds
calc_transits_accumulate(self, obs) ==
    IF has_all_data(self)
    THEN LET mids == midtransit_times(self)
             transit_observability == check_observability(self, obs, mids)
         IN [self EXCEPT
               !.observable_targets_all_times =
                   @ \o ZipSelect(mids, transit_observability, 1, 1),
               !.observable_targets_some_times =
                   @ \o ZipSelect(mids, transit_observability, 2, 1)]
    ELSE self

\* _calc_transits, lines 113-140
calc_transits(self, obs) ==
    IF has_all_data(self)
    THEN LET mids == midtransit_times(self)
             transit_observability == check_observability(self, obs, mids)
         IN [self EXCEPT
               !.observable_targets_all_times =
                   ZipSelect(mids, transit_observability, 1, 1),
               !.observable_targets_some_times =
                   ZipSelect(mids, transit_observability, 2, 1)]
    ELSE self

\* a variant that takes the last occurrence of the list
get_transit_details_last(self, obs, fully_visible) ==
    LET o == IF fully_visible THEN self.observable_targets_all_times
             ELSE self.observable_targets_some_times
    IN IF o = <<>> THEN <<>> ELSE transit_times(self, obs, o[Len(o)])

\* get_transit_details, lines 177-187 (the uncorrected tuple)
get_transit_details(self, obs, fully_visible) ==
    LET o == IF fully_visible THEN self.observable_targets_all_times
             ELSE self.observable_targets_some_times
    IN IF o = <<>> THEN <<>> ELSE transit_times(self, obs, o[1])

\* has_transits, lines 142-147
has_transits(self, fully_visible) ==
    IF fully_visible THEN Len(self.observable_targets_all_times) > 0
    ELSE Len(self.observable_targets_some_times) > 0

\* Target.__init__, lines 54-87: the fields start empty and the arguments are
\* assigned through the setters, in the order of the code
NewTarget(obs, name, ra, dec, epoch, period, duration, otime, oduration) ==
    LET t0 == [ra_j2000 |-> "", dec_j2000 |-> "", name |-> "", c |-> None,
               epoch |-> None, period |-> None, duration |-> None,
               observation_time |-> None, observation_duration |-> None,
               observable_targets_all_times |-> <<>>,
               observable_targets_some_times |-> <<>>]
        t1 == set_position([t0 EXCEPT !.ra_j2000 = ra])
        t2 == set_position([t1 EXCEPT !.dec_j2000 = dec])
        t3 == set_position([t2 EXCEPT !.name = name])
        t4 == calc_transits([t3 EXCEPT !.epoch = epoch], obs)
        t5 == calc_transits([t4 EXCEPT !.period = period], obs)
        t6 == calc_transits([t5 EXCEPT !.duration = duration], obs)
        t7 == calc_transits([t6 EXCEPT !.observation_duration = oduration], obs)
    IN calc_transits([t7 EXCEPT !.observation_time = otime], obs)

Observatories ==
    [exo_hours_before : 0..MaxMargin, exo_hours_after : 0..MaxMargin,
     sets : SetsValues]

\* the scheduler variables while only the target is used
IdleScheduler ==
    /\ ts = <<>>
    /\ transitioner = None
    /\ target_data = <<>>
    /\ target_name = <<>>
    /\ target_block = <<>>
    /\ possible_sequences = <<>>
    /\ pc = "idle"
    /\ start_obs_time = None
    /\ end_obs_time = None

InitTarget ==
    /\ observatory \in Observatories
    /\ \E name \in NameValues, ra \in RaValues, dec \in DecValues,
          epoch \in EpochValues, period \in PeriodValues,
          duration \in DurationValues, otime \in ObsTimeValues,
          oduration \in ObsDurationValues :
           tgt = NewTarget(observatory, name, ra, dec, epoch, period, duration,
                           otime, oduration)
    /\ op = "__init__"
    /\ IdleScheduler
    /\ IdleAux

\* ra_j2000 setter, lines 248-251
SetRa ==
    \E ra \in RaValues :
        /\ tgt' = set_position([tgt EXCEPT !.ra_j2000 = ra])
        /\ op' = "set_position"
        /\ UNCHANGED <<observatory, schedVars, auxVars>>

\* dec_j2000 setter, lines 253-256
SetDec ==
    \E dec \in DecValues :
        /\ tgt' = set_position([tgt EXCEPT !.dec_j2000 = dec])
        /\ op' = "set_position"
        /\ UNCHANGED <<observatory, schedVars, auxVars>>

\* name setter, lines 218-223
SetName ==
    \E name \in NameValues :
        /\ tgt' = set_position([tgt EXCEPT !.name = name])
        /\ op' = "set_position"
        /\ UNCHANGED <<observatory, schedVars, auxVars>>

\* epoch setter, lines 290-295
SetEpoch ==
    \E e \in EpochValues :
        /\ tgt' = calc_transits([tgt EXCEPT !.epoch = e], observatory)
        /\ op' = "calc_transits"
        /\ UNCHANGED <<observatory, schedVars, auxVars>>

\* period setter, lines 297-300
SetPeriod ==
    \E p \in PeriodValues :
        /\ tgt' = calc_transits([tgt EXCEPT !.period = p], observatory)
        /\ op' = "calc_transits"
        /\ UNCHANGED <<observatory, schedVars, auxVars>>

\* duration setter, lines 302-305
SetDuration ==
    \E d \in DurationValues :
        /\ tgt' = calc_transits([tgt EXCEPT !.duration = d], observatory)
        /\ op' = "calc_transits"
        /\ UNCHANGED <<observatory, schedVars, auxVars>>

\* observation_time setter, lines 307-310
SetObservationTime ==
    \E t \in ObsTimeValues :
        /\ tgt' = calc_transits([tgt EXCEPT !.observation_time = t], observatory)
        /\ op' = "calc_transits"
        /\ UNCHANGED <<observatory, schedVars, auxVars>>

\* observation_duration setter, lines 312-315
SetObservationDuration ==
    \E d \in ObsDurationValues :
        /\ tgt' = calc_transits([tgt EXCEPT !.observation_duration = d], observatory)
        /\ op' = "calc_transits"
        /\ UNCHANGED <<observatory, schedVars, auxVars>>

\* observation_end_time setter, lines 317-320; t - None raises and assigns
\* nothing.  The end times offered keep the duration even.
SetObservationEndTime ==
    \E t \in EndTimeValues :
        /\ tgt.observation_time # None
        /\ (t - Val(tgt.observation_time)) % 2 = 0
        /\ tgt' = calc_transits(
               [tgt EXCEPT !.observation_duration =
                                Some(t - Val(tgt.observation_time))],
               observatory)
        /\ op' = "calc_transits"
        /\ UNCHANGED <<observatory, schedVars, auxVars>>

NextTarget ==
    \/ SetEpoch
    \/ SetPeriod
    \/ SetDuration
    \/ SetObservationTime
    \/ SetObservationDuration
    \/ SetObservationEndTime
    \/ SetRa
    \/ SetDec
    \/ SetName

SpecTarget == InitTarget /\ [][NextTarget]_vars

\* only the assignments to the event parameters and the bracket
NextEventSetters ==
    \/ SetEpoch
    \/ SetPeriod
    \/ SetDuration
    \/ SetObservationTime
    \/ SetObservationDuration
    \/ SetObservationEndTime

SpecEventSetters == InitTarget /\ [][NextEventSetters]_vars

---------------------------------------------------------------------------
(* A scheduler constructed from a Target object *)

\* Target.to_tuple, called at line 63 (the method is not in the sources at
\* hand): the node of a target, (key, priority, start, end, target), built
\* from the window of its first fully observable occurrence, and None for a
\* target without one
to_tuple(self, obs) ==
    IF ~has_transits(self, TRUE) THEN None
    ELSE LET w == get_transit_details(self, obs, TRUE)
         IN Some([key |-> <<self.name>>, priority |-> 1,
                  start |-> w[1], end |-> w[5], target |-> self.name])

\* lines 46-51: the bracket of a target that has none is filled in
fill_bracket(self, obs, start_time, end_time) ==
    LET t1 == IF self.observation_time = None
              THEN calc_transits([self EXCEPT !.observation_time =
                                                  Some(start_time)], obs)
              ELSE self
    IN IF observation_end_time(t1) = None
       THEN calc_transits(
                [t1 EXCEPT !.observation_duration =
                               Some(end_time - Val(t1.observation_time))],
                obs)
       ELSE t1

\* lines 63-64 for the one target of the list
tuples_of(self, obs) ==
    IF to_tuple(self, obs) = None THEN <<>> ELSE <<Val(to_tuple(self, obs))>>

\* TransitScheduler.__init__, lines 29-58, with targets = [tgt].  The times
\* offered keep the duration of a filled bracket even.
ConstructWithTarget ==
    \E start_time \in {0, 1}, end_time \in EndTimeValues :
        LET filled == fill_bracket(tgt, observatory, start_time, end_time)
            tuples == tuples_of(filled, observatory)
        IN /\ pc = "idle"
           /\ (end_time - start_time) % 2 = 0
           /\ tgt.observation_time # None =>
                  (end_time - Val(tgt.observation_time)) % 2 = 0
           /\ tgt' = filled
           /\ op' = IF filled = tgt THEN op ELSE "calc_transits"
           /\ ts' = tuples
           /\ target_data' = make_target_data(tuples)
           /\ target_name' = make_target_name(tuples)
           /\ target_block' = make_target_block(tuples)
           /\ possible_sequences' =
                  find_all_sequences(transitioner, make_target_data(tuples),
                                     make_target_block(tuples),
                                     make_target_name(tuples))
           /\ pc' = "done"
           /\ start_obs_time' = Some(start_time)
           /\ end_obs_time' = Some(end_time)
           /\ UNCHANGED <<transitioner, observatory>>
           /\ UNCHANGED auxVars

NextNodes == ConstructWithTarget

SpecNodes == InitTarget /\ [][NextNodes]_vars

---------------------------------------------------------------------------
(* ExoClockTargets (tofo/exoclock_targets.py): the targets of the archive   *)
(* and the forever-cache of get_all_transits                                *)
(*                                                                         *)
(* archive.targets are the Target objects of self.targets; a returned list *)
(* holds these objects themselves, written here as their positions.        *)

\* the periods of the archive's planets; np.arange cannot make the batch of a
\* period of 0, and line 134 raises
ArchivePeriods == {0, 2, 3}

\* the brackets the callers ask for
ArchiveBrackets == {<<0, 2>>, <<0, 6>>}

ArchiveKeys == ArchiveBrackets \X BOOLEAN

\* lines 133-134 raise for this target
calc_raises(self) ==
    has_all_data(self) /\ periodic(self) /\ Val(self.period) = 0

\* lines 45-46: the two assignments to one target; the first _calc_transits
\* that raises leaves the field assigned and the lists as they were
set_bracket(self, obs, time_start, time_end) ==
    LET s1 == [self EXCEPT !.observation_time = Some(time_start)]
    IN IF calc_raises(s1) THEN [target |-> s1, raised |-> TRUE]
       ELSE LET s2 == [calc_transits(s1, obs) EXCEPT
                          !.observation_duration = Some(time_end - time_start)]
            IN IF calc_raises(s2) THEN [target |-> s2, raised |-> TRUE]
               ELSE [target |-> calc_transits(s2, obs), raised |-> FALSE]

RECURSIVE set_brackets(_, _, _, _, _)
\* the for loop of lines 44-46, from target i on: it ends at the first target
\* whose computation raises
set_brackets(targets, obs, time_start, time_end, i) ==
    IF i > Len(targets) THEN [targets |-> targets, raised |-> FALSE]
    ELSE LET r == set_bracket(targets[i], obs, time_start, time_end)
             updated == [targets EXCEPT ![i] = r.target]
         IN IF r.raised THEN [targets |-> updated, raised |-> TRUE]
            ELSE set_brackets(updated, obs, time_start, time_end, i + 1)

RECURSIVE with_transits(_, _, _)
\* line 47: the targets t with t.has_transits(fully_visible)
with_transits(targets, fully_visible, i) ==
    IF i > Len(targets) THEN <<>>
    ELSE IF has_transits(targets[i], fully_visible)
         THEN <<i>> \o with_transits(targets, fully_visible, i + 1)
         ELSE with_transits(targets, fully_visible, i + 1)

\* line 24: lru_cache(maxsize=None) answers a repeated call with the list it
\* returned the first time
cache_lookup(cache, key) == cache[key]

ArchiveTarget(obs, name, period) ==
    NewTarget(obs, name, "r1", "d1", Some(0), Some(period), None, None, None)

InitArchive ==
    /\ observatory \in Observatories
    /\ \E p1 \in ArchivePeriods, p2 \in ArchivePeriods :
          archive = [targets |-> << ArchiveTarget(observatory, "A", p1),
                                    ArchiveTarget(observatory, "B", p2) >>,
                     cache |-> [k \in ArchiveKeys |-> None],
                     outcome |-> "none",
                     key |-> <<>>,
                     returned |-> <<>>]
    /\ tgt = <<>>
    /\ op = "idle"
    /\ run = <<>>
    /\ store = <<>>
    /\ images = <<>>
    /\ vsx = <<>>
    /\ IdleScheduler

\* get_all_transits(time_start, time_end, fully_visible), lines 24-47
GetAllTransits ==
    \E key \in ArchiveKeys :
        LET time_start == key[1][1]
            time_end == key[1][2]
            fully_visible == key[2]
            cached == cache_lookup(archive.cache, key)
            r == set_brackets(archive.targets, observatory, time_start, time_end, 1)
            found == with_transits(r.targets, fully_visible, 1)
        IN /\ IF cached # None
              THEN archive' = [archive EXCEPT !.outcome = "cached",
                                              !.key = key,
                                              !.returned = Val(cached)]
              ELSE IF r.raised
                   THEN archive' = [archive EXCEPT !.targets = r.targets,
                                                   !.outcome = "raised",
                                                   !.key = key,
                                                   !.returned = <<>>]
                   ELSE archive' = [archive EXCEPT !.targets = r.targets,
                                                   !.cache[key] = Some(found),
                                                   !.outcome = "computed",
                                                   !.key = key,
                                                   !.returned = found]
           /\ UNCHANGED <<schedVars, targetVars, run, store, images, vsx>>

NextArchive == GetAllTransits

SpecArchive == InitArchive /\ [][NextArchive]_vars

---------------------------------------------------------------------------
(* Properties of the target *)

\* the lists a Target freshly built from the current field values would hold
FreshLists(self, obs) ==
    LET fresh == calc_transits([self EXCEPT !.observable_targets_all_times = <<>>,
                                            !.observable_targets_some_times = <<>>],
                               obs)
    IN <<fresh.observable_targets_all_times, fresh.observable_targets_some_times>>

Lists(self) ==
    <<self.observable_targets_all_times, self.observable_targets_some_times>>

\* the field values the occurrence computation reads
Inputs(self) ==
    <<self.ra_j2000, self.dec_j2000, self.name, self.epoch, self.period,
      self.duration, self.observation_time, self.observation_duration>>

\* the windows _transit_times builds when the occurrences are computed from
\* the current field values
BuiltWindows ==
    IF has_all_data(tgt)
    THEN LET kept == SelectInBracket(tgt, midtransit_times(tgt))
         IN {transit_times(tgt, observatory, kept[i]) : i \in 1..Len(kept)}
    ELSE {}

MidTimes(self) ==
    {self.observable_targets_all_times[i] :
        i \in 1..Len(self.observable_targets_all_times)}
    \cup {self.observable_targets_some_times[i] :
        i \in 1..Len(self.observable_targets_some_times)}

RECURSIVE IsSubList(_, _)
\* a is b with some elements left out
IsSubList(a, b) ==
    IF a = <<>> THEN TRUE
    ELSE IF b = <<>> THEN FALSE
    ELSE IF Head(a) = Head(b) THEN IsSubList(Tail(a), Tail(b))
    ELSE IsSubList(a, Tail(b))

\* C6 as stated: for every duration and every configured margin the five
\* times of a window are strictly increasing.
C6_StrictlyIncreasing ==
    \A w \in BuiltWindows :
        w[1] < w[2] /\ w[2] < w[3] /\ w[3] < w[4] /\ w[4] < w[5]

\* C6 amended: the five times never decrease; ingress < mid < egress when the
\* duration is unknown or positive, window_start < ingress when the pre margin
\* is positive, egress < window_end when the post margin is positive, and
\* the times coincide where the duration or the margin is zero.
C6_WindowOrder ==
    \A w \in BuiltWindows :
        /\ w[1] <= w[2] /\ w[2] <= w[3] /\ w[3] <= w[4] /\ w[4] <= w[5]
        /\ (tgt.duration = None \/ Val(tgt.duration) > 0) <=> (w[2] < w[3] /\ w[3] < w[4])
        /\ (observatory.exo_hours_before > 0) <=> (w[1] < w[2])
        /\ (observatory.exo_hours_after > 0) <=> (w[4] < w[5])

\* C6's case: a window built for an unknown duration with both margins set.
C6_Witness ==
    /\ op = "calc_transits"
    /\ tgt.duration = None
    /\ observatory.exo_hours_before > 0
    /\ observatory.exo_hours_after > 0
    /\ tgt.observable_targets_some_times # <<>>
    /\ \E w \in BuiltWindows :
           /\ w[3] = tgt.observable_targets_some_times[1]
           /\ w = get_transit_details(tgt, observatory, FALSE)
           /\ w[1] < w[2] /\ w[2] < w[3] /\ w[3] < w[4] /\ w[4] < w[5]

\* C7: every mid time held in either occurrence list lies strictly inside the
\* observation bracket, observation_time < mid < observation_end_time.
C7_MidStrictlyInside ==
    (tgt.observation_time # None /\ tgt.observation_duration # None) =>
        \A mid \in MidTimes(tgt) :
            /\ Val(tgt.observation_time) < mid
            /\ mid < Val(observation_end_time(tgt))

\* C8: after any sequence of assignments to epoch, period, duration,
\* observation_time, observation_duration and observation_end_time both
\* lists equal what a fresh computation from the current field values yields.
C8_ListsCurrent == Lists(tgt) = FreshLists(tgt, observatory)

\* C9: recomputing the occurrences again with unchanged inputs (re-assigning
\* a field its current value right after a computation) leaves both lists
\* identical.
C9_Idempotent ==
    [][(/\ op \in {"__init__", "calc_transits"}
        /\ op' = "calc_transits"
        /\ Inputs(tgt') = Inputs(tgt))
           => Lists(tgt') = Lists(tgt)]_vars

\* C9's case: an assignment made after construction has computed the lists
\* from complete data; assigning a field its value again repeats it.
C9_Witness ==
    /\ op = "calc_transits"
    /\ has_all_data(tgt)
    /\ tgt.epoch # None /\ tgt.period # None
    /\ Len(tgt.observable_targets_some_times) >= 2
    /\ tgt.observable_targets_all_times # <<>>
    /\ Lists(tgt) = FreshLists(tgt, observatory)

\* C10: the fully observable list is a sub-list of the partially observable
\* list in every state of a target.
C10_AllWithinSome ==
    IsSubList(tgt.observable_targets_all_times, tgt.observable_targets_some_times)

\* C10's case: some occurrences are fully observable and others only partly.
C10_Witness ==
    /\ op = "calc_transits"
    /\ tgt.observable_targets_all_times # <<>>
    /\ Len(tgt.observable_targets_some_times) > Len(tgt.observable_targets_all_times)

\* the candidate mid times of the current field values that line 165 keeps,
\* before the observability flags are applied
Candidates(self) == SelectInBracket(self, midtransit_times(self))

SeqToSet(s) == {s[i] : i \in 1..Len(s)}

IsAscending(s) == \A i \in 1..(Len(s) - 1) : s[i] < s[i + 1]

\* the lists were computed from the current field values by the last step
JustComputed == op \in {"__init__", "calc_transits"} /\ has_all_data(tgt)

\* C11: a non-periodic target (epoch or period absent) with a valid bracket
\* yields exactly one occurrence, at the midpoint of the bracket.
C11_OneOccurrenceAtMidpoint ==
    (/\ JustComputed
     /\ ~periodic(tgt)
     /\ Val(tgt.observation_duration) > 0) =>
        tgt.observable_targets_some_times =
            << Val(tgt.observation_time) + Val(tgt.observation_duration) \div 2 >>

\* the event instances epoch + n * period with from <= mid time <= to
EventInstances(self, from, to) ==
    {t \in from..to : (t - Val(self.epoch)) % Val(self.period) = 0}

\* ceil(observation_duration / period) occurrences are asked for, none when
\* that number is not positive
BatchSize(self) ==
    LET n == CeilDiv(Val(self.observation_duration), Val(self.period))
    IN IF n > 0 THEN n ELSE 0

\* C12 as stated: the batch starts with the first event instance at or after
\* observation_time, and the candidates kept are exactly the event instances
\* with observation_time <= mid time <= observation_end_time.
C12_BatchFromStart ==
    (has_all_data(tgt) /\ periodic(tgt)) =>
        /\ Len(midtransit_times(tgt)) = BatchSize(tgt)
        /\ IsAscending(Candidates(tgt))
        /\ SeqToSet(Candidates(tgt)) =
               EventInstances(tgt, Val(tgt.observation_time),
                              Val(observation_end_time(tgt)))

\* C12 amended: the batch of ceil(observation_duration / period) occurrences
\* starts with the first event instance strictly after observation_time, and
\* the candidates kept are exactly the event instances with
\* observation_time < mid time <= observation_end_time, in ascending order.
C12_BatchAfterStart ==
    (has_all_data(tgt) /\ periodic(tgt)) =>
        /\ Len(midtransit_times(tgt)) = BatchSize(tgt)
        /\ \A i \in 1..Len(midtransit_times(tgt)) :
               LET t == midtransit_times(tgt)[i]
                   first == Val(tgt.observation_time) + (i - 1) * Val(tgt.period)
               IN /\ (t - Val(tgt.epoch)) % Val(tgt.period) = 0
                  /\ first < t /\ t <= first + Val(tgt.period)
        /\ IsAscending(Candidates(tgt))
        /\ SeqToSet(Candidates(tgt)) =
               EventInstances(tgt, Val(tgt.observation_time) + 1,
                              Val(observation_end_time(tgt)))

\* C12's case: the bracket starts exactly at an event instance, more than one
\* occurrence is asked for and the last one asked for is outside the bracket.
C12_Witness ==
    /\ op = "calc_transits"
    /\ has_all_data(tgt) /\ periodic(tgt)
    /\ (Val(tgt.observation_time) - Val(tgt.epoch)) % Val(tgt.period) = 0
    /\ Len(midtransit_times(tgt)) >= 2
    /\ Len(Candidates(tgt)) < Len(midtransit_times(tgt))
    /\ Candidates(tgt) # <<>>

\* C13: for a periodic target with a bracket of length L the number of
\* candidates kept inside the bracket is floor(L / period) - 1,
\* floor(L / period) or floor(L / period) + 1.
C13_CountWithinOne ==
    (has_all_data(tgt) /\ periodic(tgt)) =>
        LET f == Val(tgt.observation_duration) \div Val(tgt.period)
        IN Len(Candidates(tgt)) \in {f - 1, f, f + 1}

\* C14: whenever the bracket of a target is set, observation_end_time is not
\* before observation_time, whatever was assigned to observation_time,
\* observation_duration and observation_end_time.
C14_EndNotBeforeStart ==
    (tgt.observation_time # None /\ tgt.observation_duration # None) =>
        Val(observation_end_time(tgt)) >= Val(tgt.observation_time)

\* C15: computing the occurrences over a malformed bracket
\* (observation_end_time <= observation_time) fails with an error: no
\* computation over such a bracket returns normally, leaving its lists.
C15_MalformedBracketFails ==
    JustComputed => Val(observation_end_time(tgt)) > Val(tgt.observation_time)

\* C16: while a coordinate is missing, after any assignment to the event
\* parameters or the bracket both lists are empty, has_transits is false
\* and get_transit_details returns an empty list.
C16_NoCoordinateNoOccurrences ==
    (/\ op = "calc_transits"
     /\ (tgt.ra_j2000 = "" \/ tgt.dec_j2000 = "")) =>
        /\ Lists(tgt) = << <<>>, <<>> >>
        /\ ~has_transits(tgt, TRUE)
        /\ ~has_transits(tgt, FALSE)
        /\ get_transit_details(tgt, observatory, TRUE) = <<>>
        /\ get_transit_details(tgt, observatory, FALSE) = <<>>

\* C21: node building creates one node for each fully observable occurrence
\* of a target (k occurrences give k nodes, none gives no node), each
\* carrying the target's id.
C21_OneNodePerOccurrence ==
    (pc = "done" /\ op # "idle") =>
        /\ Len(target_name) = Len(tgt.observable_targets_all_times)
        /\ \A i \in 1..Len(target_name) :
               /\ ename(target_name[i]) = <<tgt.name>>
               /\ target_data[target_name[i]].target = tgt.name

\* target i of the archive with the bracket of the last call
Asked(i) ==
    [archive.targets[i] EXCEPT
        !.observation_time = Some(archive.key[1][1]),
        !.observation_duration = Some(archive.key[1][2] - archive.key[1][1])]

RECURSIVE Expected(_)
\* the targets, from i on, with an occurrence of the visibility asked for in
\* the bracket of the last call
Expected(i) ==
    IF i > Len(archive.targets) THEN <<>>
    ELSE IF FreshLists(Asked(i), observatory)[IF archive.key[2] THEN 1 ELSE 2] # <<>>
         THEN <<i>> \o Expected(i + 1)
         ELSE Expected(i + 1)

C29_FailureIsolated ==
    (archive # <<>> /\ archive.outcome \in {"computed", "raised"}) =>
        /\ archive.outcome = "computed"
        /\ \A i \in 1..Len(archive.targets) :
               Val(archive.targets[i].period) # 0 =>
                   /\ archive.targets[i].observation_time = Some(archive.key[1][1])
                   /\ Lists(archive.targets[i]) = FreshLists(Asked(i), observatory)

\* the site constraints of the observatory hold at time t
SiteAllows(t) == t < observatory.sets

\* the time constraint of the bracket holds at time t
BracketAllows(t) ==
    Val(tgt.observation_time) < t /\ t < Val(observation_end_time(tgt))

RECURSIVE Choose(_, _, _)
\* the elements s[i] from i on whose index is in the set I
Choose(s, I, i) ==
    IF i > Len(s) THEN <<>>
    ELSE IF i \in I THEN <<s[i]>> \o Choose(s, I, i + 1)
         ELSE Choose(s, I, i + 1)

C27_WindowInsideBracket ==
    (tgt # <<>> /\ tgt.observation_time # None /\ tgt.observation_duration # None) =>
        \A mid \in MidTimes(tgt) :
            LET w == transit_times(tgt, observatory, mid)
            IN /\ Val(tgt.observation_time) <= w[1]
               /\ w[5] <= Val(observation_end_time(tgt))

\* C28: both lists are in strictly ascending order of time, and
\* get_transit_details returns the window of the earliest occurrence of the
\* list.
C28_ListsAscending ==
    tgt # <<>> =>
        /\ IsAscending(tgt.observable_targets_all_times)
        /\ IsAscending(tgt.observable_targets_some_times)
        /\ \A fully_visible \in BOOLEAN :
               LET o == IF fully_visible THEN tgt.observable_targets_all_times
                        ELSE tgt.observable_targets_some_times
               IN o # <<>> =>
                      /\ get_transit_details(tgt, observatory, fully_visible)[3] \in SeqToSet(o)
                      /\ \A t \in SeqToSet(o) :
                             get_transit_details(tgt, observatory, fully_visible)[3] <= t

\* C28's case: lists of several occurrences, the window returned being that
\* of the first.
C28_Witness ==
    /\ op = "calc_transits"
    /\ Len(tgt.observable_targets_all_times) >= 2
    /\ Len(tgt.observable_targets_some_times) >= 3
    /\ get_transit_details(tgt, observatory, TRUE)[3] = tgt.observable_targets_all_times[1]
    /\ tgt.observable_targets_all_times[1] < tgt.observable_targets_all_times[2]

---------------------------------------------------------------------------
\* The catalogue sources and their shared cache file (tofo/sources).
\* store = [file, ages, now, instances, outcome]: whether the cache file
\* exists, its 'ages' table (source name -> recorded update time), the wall
\* clock in days, the Source objects constructed so far and the outcome of
\* the last operation.  Two readings of the clock made by different
\* operations differ: an operation starts dt >= 1 after the previous one.

\* the latest reading of the clock
MaxClock == 5
\* the number of Source objects constructed
MaxSources == 3
\* 100_000.0 * u.day, "never" (source.py line 35)
NeverDays == 100000

SourceNames == {"exoclock", "aavso_vsx", "gcvs"}

\* observatory.sources: the cache_life_days of the configured data sources
\* (observatory.py lines 161-166); gcvs is not configured
SourceSettings ==
    [n \in SourceNames |->
        CASE n = "exoclock" -> Some(-1)
          [] n = "aavso_vsx" -> Some(1)
          [] OTHER -> None]

\* the cache_life_days argument of the constructor
LifeArgs == {None, Some(-1), Some(0), Some(2)}

\* Table(names=('source','age')) without rows, line 63
EmptyAges == [n \in SourceNames |-> None]

\* Source.__init__, lines 29-38, for a source with settings or an argument
cache_life_days(name, arg) ==
    IF arg = None
    THEN IF Val(SourceSettings[name]) < 0 THEN NeverDays
         ELSE Val(SourceSettings[name])
    ELSE Val(arg)

\* line 31: the observatory has no settings for the source
no_settings(name, arg) == arg = None /\ SourceSettings[name] = None

\* needs_updating, lines 54-64: the object with ages_table and age_days set
read_age(self, st, now) ==
    IF st.file
    THEN IF st.ages[self.name] # None
         THEN [self EXCEPT !.ages_table = st.ages,
                           !.age_days = now - Val(st.ages[self.name])]
         ELSE [self EXCEPT !.ages_table = st.ages,
                           !.age_days = self.cache_life_days + 1]
    ELSE [self EXCEPT !.ages_table = EmptyAges,
                      !.age_days = self.cache_life_days + 1]

\* needs_updating, line 66: the value returned
needs_updating(self) == self.age_days > self.cache_life_days

\* update_age, lines 70-78: the object afterwards
update_age(self, now) ==
    [self EXCEPT !.age_days = 0,
                 !.ages_table = [self.ages_table EXCEPT ![self.name] = Some(now)]]

\* update_age, line 79 (and the write of the data before it): the file
write_ages(self, st) == [st EXCEPT !.file = TRUE, !.ages = self.ages_table]

InitSources ==
    /\ observatory = [exo_hours_before |-> 0, exo_hours_after |-> 0,
                      sets |-> MaxObsHalf]
    /\ store = [file |-> FALSE, ages |-> EmptyAges, now |-> 0,
                instances |-> <<>>, outcome |-> "none"]
    /\ tgt = <<>>
    /\ op = "idle"
    /\ archive = <<>>
    /\ run = <<>>
    /\ images = <<>>
    /\ vsx = <<>>
    /\ IdleScheduler

\* ExoClock(observatory, arg), GCVS(observatory, arg): Source.__init__ and
\* _load_data (exoclock.py lines 26-48, gcvs.py lines 36-63); the download
\* takes fd and succeeds or fails
NewCatalogue ==
    \E name \in {"exoclock", "gcvs"}, arg \in LifeArgs, dt \in 1..2,
       fd \in 0..1, ok \in BOOLEAN :
        LET now == store.now + dt
            new == [name |-> name, cache_life_days |-> cache_life_days(name, arg),
                    age_days |-> 0, ages_table |-> EmptyAges,
                    fetched |-> FALSE, born |-> now]
            self == read_age(new, store, now)
            upd == update_age(self, now + fd)
        IN /\ Len(store.instances) < MaxSources
           /\ now + fd <= MaxClock
           /\ store' =
                IF no_settings(name, arg)
                THEN [store EXCEPT !.now = now, !.outcome = "raised"]
                ELSE IF ~needs_updating(self)
                THEN [store EXCEPT !.now = now, !.outcome = "loaded",
                                   !.instances = Append(@, self)]
                ELSE IF ~ok
                THEN [store EXCEPT !.now = now + fd, !.outcome = "raised"]
                ELSE [write_ages(upd, store) EXCEPT
                        !.now = now + fd, !.outcome = "fetched",
                        !.instances = Append(@, [upd EXCEPT !.fetched = TRUE,
                                                            !.born = now + fd])]
           /\ UNCHANGED <<observatory, tgt, op, archive, run, images, vsx, schedVars>>

\* VSX(observatories, arg): Source.__init__ and _load_data (aavso.py lines
\* 36-77); nothing is downloaded and no update time is recorded here
NewVSX ==
    \E arg \in LifeArgs, dt \in 1..2 :
        LET now == store.now + dt
            new == [name |-> "aavso_vsx",
                    cache_life_days |-> cache_life_days("aavso_vsx", arg),
                    age_days |-> 0, ages_table |-> EmptyAges,
                    fetched |-> FALSE, born |-> now]
        IN /\ Len(store.instances) < MaxSources
           /\ now <= MaxClock
           /\ store' = [store EXCEPT !.now = now, !.outcome = "loaded",
                           !.instances = Append(@, read_age(new, store, now))]
           /\ UNCHANGED <<observatory, tgt, op, archive, run, images, vsx, schedVars>>

\* vsx.query_target(name) of a star not yet held: the row is written to the
\* cache file and update_age is called on the object's own ages_table
\* (aavso.py lines 141-164, 185-211; likewise lines 289-291)
QueryVSX ==
    \E i \in 1..Len(store.instances), dt \in 1..2 :
        LET now == store.now + dt
            upd == update_age(store.instances[i], now)
        IN /\ store.instances[i].name = "aavso_vsx"
           /\ now <= MaxClock
           /\ store' = [write_ages(upd, store) EXCEPT
                           !.now = now, !.outcome = "updated",
                           !.instances = [@ EXCEPT ![i] = upd]]
           /\ UNCHANGED <<observatory, tgt, op, archive, run, images, vsx, schedVars>>

NextSources == NewCatalogue \/ NewVSX \/ QueryVSX

SpecSources == InitSources /\ [][NextSources]_vars

\* the object made by the last constructor call
Latest == store.instances[Len(store.instances)]

\* needs_updating answers with the rule of the cache: the file is absent,
\* no update time is recorded for the source, or the age exceeds the life
NeedsUpdatingByRule ==
    [][\A name \in {"exoclock", "gcvs"}, arg \in LifeArgs, dt \in 1..2 :
          ~no_settings(name, arg) =>
             LET now == store.now + dt
                 self == read_age([name |-> name,
                                   cache_life_days |-> cache_life_days(name, arg),
                                   age_days |-> 0, ages_table |-> EmptyAges,
                                   fetched |-> FALSE, born |-> now], store, now)
             IN needs_updating(self) <=>
                   \/ ~store.file
                   \/ store.ages[name] = None
                   \/ now - Val(store.ages[name]) > self.cache_life_days]_vars

\* C30: a source object constructed within the cache life of the last
\* download of its catalogue loads from the cache: it downloads nothing,
\* leaves the recorded update time alone and observes a larger age than the
\* object that downloaded.
C30_SecondInstanceLoads ==
    \A i \in 1..Len(store.instances), j \in 1..Len(store.instances) :
        LET a == store.instances[i]
            b == store.instances[j]
        IN (/\ i < j
            /\ a.name = b.name
            /\ a.fetched
            /\ \A k \in (i + 1)..(j - 1) : store.instances[k].name # a.name
            /\ b.born - a.born <= b.cache_life_days) =>
               /\ ~b.fetched
               /\ a.age_days < b.age_days

\* C34: after an assignment to ra_j2000, dec_j2000 or name the lists equal
\* what a fresh computation at the current sky position yields, and they
\* are empty once the coordinate has been cleared.
C34_ListsFollowPosition ==
    op = "set_position" =>
        /\ Lists(tgt) = FreshLists(tgt, observatory)
        /\ (tgt.ra_j2000 = "" \/ tgt.dec_j2000 = "") =>
               Lists(tgt) = << <<>>, <<>> >>

\* C35: every flag pair returned by check_observability is paired by
\* _calc_transits with the mid time whose window it was computed for,
\* although flags are returned for the mid times inside the bracket only;
\* a mid time is in a list only if its own window was found observable.
C35_FlagsPairedWithOwnMidTime ==
    has_all_data(tgt) =>
        LET mids == midtransit_times(tgt)
            kept == Candidates(tgt)
            obsv == check_observability(tgt, observatory, mids)
            own(t) == flags([n \in 1..5 |->
                         is_event_observable(tgt, observatory,
                             transit_times(tgt, observatory, t)[n])])
        IN /\ Len(obsv) <= Len(mids)
           /\ \A i \in 1..Len(obsv) : mids[i] = kept[i] /\ obsv[i] = own(mids[i])
           /\ JustComputed =>
                 /\ \A t \in SeqToSet(tgt.observable_targets_all_times) : own(t)[1]
                 /\ \A t \in SeqToSet(tgt.observable_targets_some_times) : own(t)[2]

\* C35's case: the oracle gave more mid times than the bracket holds, flags
\* came back for the first ones only, and one of them entered the lists.
C35_Witness ==
    /\ JustComputed /\ op = "calc_transits"
    /\ Len(Candidates(tgt)) >= 1
    /\ Len(Candidates(tgt)) < Len(midtransit_times(tgt))
    /\ tgt.observable_targets_all_times # <<>>

\* the construction of a scheduler from the target has just run
Constructed == pc = "idle" /\ pc' = "done"

\* C37: after the construction the target has an observation_time and an
\* observation_end_time; one that had both keeps its bracket and its lists,
\* one that had neither has exactly [start_obs_time, end_obs_time].
C37_BracketFilled ==
    [][Constructed =>
          /\ tgt'.observation_time # None
          /\ observation_end_time(tgt') # None
          /\ (tgt.observation_time # None /\ observation_end_time(tgt) # None)
                => tgt' = tgt
          /\ (tgt.observation_time = None /\ observation_end_time(tgt) = None)
                => /\ tgt'.observation_time = start_obs_time'
                   /\ observation_end_time(tgt') = end_obs_time']_vars

\* C38: every node key of target_name has one timing entry in target_data
\* and one block in target_block, and the two describe the same input tuple
\* (the block lasts from the start to the end of the timing entry), also
\* when input tuples share a key.
C38_DataAndBlockAgree ==
    pc \in {"done", "raised"} =>
        \A n \in 1..Len(target_name) :
            LET k == target_name[n]
            IN /\ k \in DOMAIN target_data
               /\ k \in DOMAIN target_block
               /\ \A m \in 1..Len(target_name) : target_name[m] = k => m = n
               /\ target_block[k].duration =
                      target_data[k].end - target_data[k].start
               /\ \E i \in 1..Len(ts) :
                     /\ ts[i].key = k
                     /\ target_data[k] =
                            [priority |-> ts[i].priority, start |-> ts[i].start,
                             end |-> ts[i].end, target |-> ts[i].target]
                     /\ target_block[k] =
                            [target |-> ts[i].target,
                             duration |-> ts[i].end - ts[i].start,
                             priority |-> ts[i].priority]

\* the suffix of s that starts after its first n elements
Suffix(s, n) == SubSeq(s, n + 1, Len(s))

\* C39: an enumeration that has begun ends, and it ends by returning unless
\* the call of the transitioner raised; each call of _find_all receives a
\* list strictly shorter than the one its caller works on, the nodes are
\* taken as chain head one after the other in list order, each once, and
\* target_name is left unchanged by the search.
C39_EnumerationTerminates ==
    /\ (pc = "running") ~> (pc \in {"done", "raised"})
    /\ [](pc = "raised" => raises(transitioner))
    /\ [][(pc = "running" /\ Len(run'.stack) = Len(run.stack) + 1) =>
             Len(top(run'.stack).local_l) <
                 (IF run.stack = <<>> THEN Len(run.local_l)
                  ELSE Len(top(run.stack).local_l))]_vars
    /\ [][(pc = "running" /\ run.stack = <<>> /\ run'.stack # <<>>) =>
             /\ run.local_l # <<>>
             /\ run'.stack[1].e = Head(run.local_l)
             /\ run'.local_l = Tail(run.local_l)]_vars
    /\ [](pc = "running" =>
             \E n \in 0..Len(target_name) :
                 /\ run.local_l = Suffix(target_name, n)
                 /\ run.stack # <<>> => (n > 0 /\ run.stack[1].e = target_name[n]))
    /\ [](pc = "done" => run.local_l = <<>> /\ run.stack = <<>>)
    /\ [][pc = "running" => target_name' = target_name]_vars

\* C39's case: an enumeration over three nodes or more that went three
\* calls deep and has ended.
C39_Witness ==
    /\ pc = "done"
    /\ run # <<>>
    /\ Len(target_name) >= 3
    /\ \E i \in 1..Len(possible_sequences) : Len(possible_sequences[i]) >= 3

\* the source whose update_age the last operation called, if any
Updater ==
    IF store.outcome = "updated" THEN "aavso_vsx"
    ELSE IF store.outcome = "fetched" THEN Latest.name
    ELSE ""

\* C33: update_age changes the entry of the calling source only: the update
\* time persisted for every other source is the same after the call as
\* before it.
C33_OtherSourcesKept ==
    [][\A n \in SourceNames :
          n # Updater' => store'.ages[n] = store.ages[n]]_vars

---------------------------------------------------------------------------
\* The image cache (tofo/sources/image_cache.py).
\* images = [files, in_processing, calls, fetches]: the .fits file of each
\* target name in the cache directory, self.in_processing, the calls of
\* preload_images with their position in the target list, and the runs of
\* _get_remote_fits they submitted, each on a thread of its own.  A file is [exists, size,
\* opened]: size 0 is an empty file, 1 a partly written one, 2 a complete
\* image; opened counts the times it was opened for writing.
\* hdul[0].writeto(path) is astropy's writeto without overwrite: it refuses
\* when the file exists and is not empty, and otherwise opens the file for
\* writing (truncating it), writes and closes.  These are separate steps of
\* the thread, nothing holds a lock over them.

\* the number of runs of _get_remote_fits
MaxFetches == 2
\* the number of calls of preload_images
MaxCalls == 1
\* the length of a target list
MaxTargets == 2

ImageNames == {"A", "B"}

\* the target lists given to preload_images, by the names of the targets
TargetLists ==
    UNION {[1..n -> ImageNames] : n \in 1..MaxTargets}

\* no file of that name in the directory
NoFile == [exists |-> FALSE, size |-> 0, opened |-> 0]

\* path.is_file(), line 105
is_file(f) == f.exists

\* line 105: we have the image or we are loading it
have_or_loading(img, name) ==
    name \in img.in_processing \/ is_file(img.files[name])

\* executor.submit(self._get_remote_fits, ...), lines 108-112
submit(img, name, call) ==
    [img EXCEPT !.fetches = Append(@, [name |-> name, pc |-> "search",
                                       call |-> call])]

InitImages ==
    /\ observatory = [exo_hours_before |-> 0, exo_hours_after |-> 0,
                      sets |-> MaxObsHalf]
    /\ images = [files |-> [n \in ImageNames |-> NoFile],
                 in_processing |-> {},
                 calls |-> <<>>,
                 fetches |-> <<>>]
    /\ tgt = <<>>
    /\ op = "idle"
    /\ archive = <<>>
    /\ run = <<>>
    /\ store = <<>>
    /\ vsx = <<>>
    /\ IdleScheduler

IdleButImages ==
    UNCHANGED <<observatory, tgt, op, archive, run, store, vsx, schedVars>>

\* preload_images(targets) is called, lines 101-102
PreloadImages ==
    \E targets \in TargetLists :
        /\ Len(images.calls) < MaxCalls
        /\ images' = [images EXCEPT !.calls =
                         Append(@, [targets |-> targets, i |-> 1,
                                    pc |-> "loop"])]
        /\ IdleButImages

\* lines 103-106: the image is there or being loaded, continue
PreloadContinue ==
    \E c \in 1..Len(images.calls) :
        LET call == images.calls[c]
        IN /\ call.pc = "loop"
           /\ call.i <= Len(call.targets)
           /\ have_or_loading(images, call.targets[call.i])
           /\ images' = [images EXCEPT !.calls[c].i = @ + 1]
           /\ IdleButImages

\* lines 103-112: the image is loaded on a new thread
PreloadSubmit ==
    \E c \in 1..Len(images.calls) :
        LET call == images.calls[c]
        IN /\ call.pc = "loop"
           /\ call.i <= Len(call.targets)
           /\ ~have_or_loading(images, call.targets[call.i])
           /\ Len(images.fetches) < MaxFetches
           /\ images' = [submit(images, call.targets[call.i], c) EXCEPT
                            !.calls[c].i = @ + 1]
           /\ IdleButImages

\* line 101: leaving the with block waits for the threads of the call
PreloadReturn ==
    \E c \in 1..Len(images.calls) :
        LET call == images.calls[c]
        IN /\ call.pc = "loop"
           /\ call.i > Len(call.targets)
           /\ \A f \in 1..Len(images.fetches) :
                 images.fetches[f].call = c =>
                     images.fetches[f].pc \in {"done", "refused"}
           /\ images' = [images EXCEPT !.calls[c].pc = "returned"]
           /\ IdleButImages

\* _get_remote_fits, lines 45-51 and 60-62: the search and the download,
\* with an image or without
Search ==
    \E f \in 1..Len(images.fetches), got \in BOOLEAN :
        /\ images.fetches[f].pc = "search"
        /\ images' = [images EXCEPT !.fetches[f].pc =
                         IF got THEN "writeto" ELSE "done"]
        /\ IdleButImages

\* line 54, writeto: the file exists and is not empty, the write is refused
WriteRefused ==
    \E f \in 1..Len(images.fetches) :
        LET file == images.files[images.fetches[f].name]
        IN /\ images.fetches[f].pc = "writeto"
           /\ file.exists /\ file.size # 0
           /\ images' = [images EXCEPT !.fetches[f].pc = "refused"]
           /\ IdleButImages

\* line 54, writeto: no file, or an empty one, the write goes ahead
WriteAllowed ==
    \E f \in 1..Len(images.fetches) :
        LET file == images.files[images.fetches[f].name]
        IN /\ images.fetches[f].pc = "writeto"
           /\ ~(file.exists /\ file.size # 0)
           /\ images' = [images EXCEPT !.fetches[f].pc = "open"]
           /\ IdleButImages

\* line 54, writeto: the file is opened for writing and truncated
OpenFile ==
    \E f \in 1..Len(images.fetches) :
        LET name == images.fetches[f].name
        IN /\ images.fetches[f].pc = "open"
           /\ images' = [images EXCEPT
                 !.fetches[f].pc = "write",
                 !.files[name] = [exists |-> TRUE, size |-> 0,
                                  opened |-> @.opened + 1]]
           /\ IdleButImages

\* line 54, writeto: the image is written
WriteFile ==
    \E f \in 1..Len(images.fetches) :
        LET name == images.fetches[f].name
        IN /\ images.fetches[f].pc = "write"
           /\ images' = [images EXCEPT !.fetches[f].pc = "close",
                                       !.files[name].size = 1]
           /\ IdleButImages

\* line 54, writeto: the file is flushed and closed; lines 55, 59
CloseFile ==
    \E f \in 1..Len(images.fetches) :
        LET name == images.fetches[f].name
        IN /\ images.fetches[f].pc = "close"
           /\ images' = [images EXCEPT !.fetches[f].pc = "done",
                                       !.files[name].size = 2]
           /\ IdleButImages

NextImages ==
    \/ PreloadImages \/ PreloadContinue \/ PreloadSubmit \/ PreloadReturn
    \/ Search \/ WriteRefused \/ WriteAllowed \/ OpenFile \/ WriteFile
    \/ CloseFile

SpecImages == InitImages /\ [][NextImages]_vars

\* the fetches started by preload_images for the name that are under way
InFlight(name) ==
    {f \in 1..Len(images.fetches) :
        /\ images.fetches[f].name = name
        /\ images.fetches[f].pc \notin {"done", "refused"}}

\* C31: preload_images starts no fetch for a target that is being loaded:
\* at most one of its fetches per target name is in flight.
C31_OneFetchPerTarget ==
    \A name \in ImageNames : Cardinality(InFlight(name)) <= 1

\* C32: under every interleaving of the fetches of one target the image
\* file is opened for writing by at most one of them, so that an existing
\* file is never overwritten or written by two.
C32_SingleWriter ==
    \A name \in ImageNames : images.files[name].opened <= 1

---------------------------------------------------------------------------
\* The queries of one VSX object (tofo/sources/aavso.py).
\* vsx = [targets, r_targets, target_cache, radius_cache, calls, last,
\* transient]: self.targets and self.r_targets by the names of the stars, the
\* two lru_cache tables (None: no entry; Some(result): the result kept),
\* the number of queries made, what the last query did, and the arguments
\* whose latest online lookup met a response other than 200.
\* A result is the set of the names of the targets returned: query_target
\* returns one target or None (the empty set), query_radius a list.

\* the number of queries made of the object
MaxQueries == 3

StarNames == {"X", "Y"}
\* the (ra, dec, radius, limiting_mag) arguments of a radius search
RadiusKeys == {"r1", "r2"}
\* the stars VSX holds around a position
StarsAround(key) == IF key = "r1" THEN {"X"} ELSE {"X", "Y"}
\* what requests.get meets: a response other than 200, a 200 without an
\* object, a 200 with the object or objects asked for
Responses == {"error", "empty", "found"}

\* lru_cache(maxsize=None), lines 71-72: whatever the function returned is
\* kept for the arguments
remember(cache, key, result) == [cache EXCEPT ![key] = Some(result)]

\* _query_target_online, lines 150-164: the target returned
query_target_online(name, response) ==
    IF response = "found" THEN {name} ELSE {}

\* _query_radius_online, lines 264-292: the targets returned
query_radius_online(key, response) ==
    IF response = "found" THEN StarsAround(key) ELSE {}

InitVSX ==
    /\ observatory = [exo_hours_before |-> 0, exo_hours_after |-> 0,
                      sets |-> MaxObsHalf]
    /\ vsx = [targets |-> {},
              r_targets |-> [k \in RadiusKeys |-> {}],
              target_cache |-> [n \in StarNames |-> None],
              radius_cache |-> [k \in RadiusKeys |-> None],
              calls |-> 0,
              last |-> [arg |-> "", contacted |-> FALSE, result |-> {}],
              transient |-> {}]
    /\ tgt = <<>>
    /\ op = "idle"
    /\ archive = <<>>
    /\ run = <<>>
    /\ store = <<>>
    /\ images = <<>>
    /\ IdleScheduler

IdleButVSX ==
    UNCHANGED <<observatory, tgt, op, archive, run, store, images, schedVars>>

\* query_target(name), lines 117-164
QueryTarget ==
    \E name \in StarNames, response \in Responses :
        LET cached == vsx.target_cache[name]
            local == name \in vsx.targets
            result == IF local THEN {name}
                      ELSE query_target_online(name, response)
        IN /\ vsx.calls < MaxQueries
           /\ vsx' =
                IF cached # None
                THEN [vsx EXCEPT
                        !.calls = @ + 1,
                        !.last = [arg |-> name, contacted |-> FALSE,
                                  result |-> Val(cached)]]
                ELSE [vsx EXCEPT
                        !.calls = @ + 1,
                        !.targets = @ \cup result,
                        !.target_cache = remember(@, name, result),
                        !.last = [arg |-> name, contacted |-> ~local,
                                  result |-> result],
                        !.transient =
                            IF local THEN @
                            ELSE IF response = "error" THEN @ \cup {name}
                            ELSE @ \ {name}]
           /\ IdleButVSX

\* query_radius(ra, dec, radius, limiting_mag), lines 244-292
QueryRadius ==
    \E key \in RadiusKeys, response \in Responses :
        LET cached == vsx.radius_cache[key]
            local == vsx.r_targets[key] # {}
            result == IF local THEN vsx.r_targets[key]
                      ELSE query_radius_online(key, response)
        IN /\ vsx.calls < MaxQueries
           /\ vsx' =
                IF cached # None
                THEN [vsx EXCEPT
                        !.calls = @ + 1,
                        !.last = [arg |-> key, contacted |-> FALSE,
                                  result |-> Val(cached)]]
                ELSE [vsx EXCEPT
                        !.calls = @ + 1,
                        !.targets = @ \cup result,
                        !.r_targets[key] = result,
                        !.radius_cache = remember(@, key, result),
                        !.last = [arg |-> key, contacted |-> ~local,
                                  result |-> result],
                        !.transient =
                            IF local THEN @
                            ELSE IF response = "error" THEN @ \cup {key}
                            ELSE @ \ {key}]
           /\ IdleButVSX

NextVSX == QueryTarget \/ QueryRadius

SpecVSX == InitVSX /\ [][NextVSX]_vars

\* C36: a lookup that failed on a response other than 200 is not
\* remembered: the next query with the same arguments on the same object
\* contacts the remote service again.
C36_TransientFailureRetried ==
    [][(/\ vsx'.calls = vsx.calls + 1
        /\ vsx'.last.arg \in vsx.transient
        /\ vsx'.last.arg \notin vsx.targets)
          => vsx'.last.contacted]_vars

===========================================================================
